---- MODULE Spec2Model ----
(***************************************************************************)
(* The worker pool (Consumer), its workers and the scaling controller of   *)
(* sqs-fargate-consumer, as a state machine.                               *)
(*                                                                         *)
(*   internal/consumer/consumer.go   Consumer: Start, addWorker,           *)
(*                                   removeWorker, Shutdown                *)
(*   internal/consumer/worker.go     Worker: NewWorker, Start, Stop,       *)
(*                                   handleError, deleteMessage            *)
(*   internal/consumer/scaler.go     Scaler: Start, evaluateScaling,       *)
(*                                   shouldScaleUp, shouldScaleDown        *)
(*   main, MetricsCollector          (the file under internal/config):     *)
(*                                   RecordMetric, processMetric,          *)
(*                                   GetMetric, GetMetricAverage, Start    *)
(*                                                                         *)
(* Every section of code that runs under Consumer.mu is one action; a      *)
(* goroutine's blocking calls (the long poll, the handler, a send on the   *)
(* metrics channel) separate its actions.                                  *)
(***************************************************************************)
EXTENDS Integers, Sequences, FiniteSets, TLC

(***************************************************************************)
(* Bounds of the model.                                                    *)
(***************************************************************************)
\* largest MaxWorkerCount of the configurations explored
MaxPool == 3
\* largest CooldownPeriod of the configurations explored, in seconds
MaxCooldown == 1
\* the clock (in seconds) runs from 0 to MaxTime
MaxTime == 2
\* number of worker ids uuid.New() mints in a run
MaxCreated == 4
\* number of messages the queue delivers in a run
MaxMsgs == 2
\* largest batch one ReceiveMessage returns (10 in the program)
MaxBatch == 2
\* number of ReceiveMessage calls that fail in a run
MaxPollErrors == 1
\* capacity of the metrics channel (1000 in the program)
MetricsCapacity == 1
\* RecordMetric calls of the ticker loops and the utilization tickers
MaxSamples == 3
\* messages a worker handles between two ticks of its utilization ticker
MaxProcessed == 50

(***************************************************************************)
(* Program constants.                                                      *)
(***************************************************************************)
\* cfg.ScaleUpThreshold, cfg.ScaleDownThreshold (queue depth) in main
ScaleUpThreshold == 50
ScaleDownThreshold == 10
\* cfg.TargetProcessingTime.Seconds() in main
TargetProcessingTimeSeconds == 30
\* the utilization thresholds of shouldScaleUp and shouldScaleDown
UtilizationUp == 75
UtilizationDown == 40
\* VisibilityTimeout of handleError's ChangeMessageVisibility, in seconds
VisibilityReset == 30
\* the time processMessage takes (time.Sleep(5 * time.Second)), in milliseconds
ProcessingMillis == 5000
\* the window of the scaler's GetMetricAverage calls (1 * time.Minute), in
\* seconds: the clock counts seconds
AverageWindow == 60
\* the age at which cleanupOldDataPoints drops a data point (30 * time.Minute),
\* in seconds
Retention == 1800
\* the cap of trackUtilization (if utilization > 100), in percent
UtilizationCap == 100

WorkerIds == 1..MaxCreated
MsgIds == 1..MaxMsgs

\* consumer.Config: the worker counts and the cooldown are inputs; the spec
\* requires 1 <= min <= initial <= max of them.
Configs ==
    { c \in [MinWorkerCount : 1..MaxPool, InitialWorkerCount : 1..MaxPool,
             MaxWorkerCount : 1..MaxPool, CooldownPeriod : 1..MaxCooldown] :
        /\ c.MinWorkerCount <= c.InitialWorkerCount
        /\ c.InitialWorkerCount <= c.MaxWorkerCount }

\* The configurations of the scaler's specification: pools of at most two.
ScalerConfigs == {c \in Configs : c.MaxWorkerCount <= 2}

\* The configuration of the workers' specification.
WorkerConfigs ==
    {c \in Configs : /\ c.MinWorkerCount = 1
                     /\ c.InitialWorkerCount = 2
                     /\ c.MaxWorkerCount = 2
                     /\ c.CooldownPeriod = MaxCooldown}

\* Readings the collector can hold when the scaler ticks, for the
\* specifications that leave the collector's producers out:
\* GetMetric(QueueDepth), GetMetricAverage(ProcessingTime, 1m) in
\* milliseconds, GetMetricAverage(WorkerUtilization, 1m) in percent.
QueueDepths == {0, 50, 60}
ProcessingTimes == {1, 40}
Utilizations == {30, 80}
Readings == QueueDepths \X ProcessingTimes \X Utilizations
\* one reading that scales up and one that scales down
PoolReadings == {<<60, 1, 30>>, <<0, 1, 30>>}

\* what processMessage (the handler) can return
HandlerResults == {"nil", "err"}
\* ApproximateNumberOfMessages as monitorQueueDepth reads it: multiples of 60,
\* whose means over up to six points are integers
VisibleCounts == {60, 120}
\* the instants the clock visits, in seconds: a sample window apart, a second
\* more, and beyond the retention of the data points
Instants == {0, 60, 120, 121, 1921}
\* the instants the utilization ticker is watched at: windows of 1, 9, 10 and
\* 20 seconds
TickInstants == {0, 1, 10, 20}
\* how many messages a worker handles at a stretch
ProcessedBetweenTicks == {5, 50}

\* The ticker loops besides the scaler's and the workers': Consumer.reportMetrics,
\* Consumer.monitorQueueDepth and the publishing loop of MetricsCollector.Start.
Tasks == {"reportMetrics", "monitorQueueDepth", "publishMetrics"}

VARIABLES
    config,          \* Consumer.config / Scaler.config
    workers,         \* Consumer.workers: the ids (keys) of the map
    done,            \* Worker.done of every worker id: TRUE once closed
    nextId,          \* the next id uuid.New() returns
    startPc,         \* Consumer.Start: "adding", "returned" (nil), "failed" (error)
    startI,          \* Consumer.Start: the loop variable i
    startCreated,    \* workers the addWorker calls of Consumer.Start created
    spawned,         \* goroutines Consumer.Start has started
    mainPc,          \* main: "waiting" (<-sigCh), "cancelled", "done"
    scalerPc,        \* Scaler.Start: "waiting" (select), "exited"
    lastScaleEvent,  \* Scaler.lastScaleEvent
    now,             \* time.Now()
    eval,            \* the locals of the last evaluateScaling and what it called
    ret,             \* the last call of addWorker / removeWorker / Shutdown
    panicked,        \* a goroutine panicked: the process is gone
    wpc,             \* Worker.Start of every worker id: where the goroutine is
    upc,             \* Worker.trackUtilization of every worker id
    batch,           \* Worker.Start: the messages of the batch not yet done
    isProcessing,    \* Worker.isProcessing
    processedCount,  \* Worker.processedCount
    nextMsg,         \* the next message the queue delivers
    pollErrors,      \* ReceiveMessage calls that failed so far
    msg,             \* per message: who received it and the calls made for it
    metrics,         \* MetricsCollector.metrics: the buffered channel
    metricValues,    \* MetricsCollector.metricValues
    metricWindow,    \* MetricsCollector.metricWindow
    drainPc,         \* the goroutine of MetricsCollector.Start that receives
                     \* from the channel: "none", "draining", "exited"
    lastWindowTime,  \* Worker.lastWindowTime (Unix seconds)
    pendingUtilization, \* Worker.trackUtilization: the utilization it is recording
    taskPc,          \* the ticker loops reportMetrics, monitorQueueDepth and
                     \* MetricsCollector.Start: "none", "waiting", "recording",
                     \* "exited"
    outbox,          \* per ticker loop: the samples its tick has yet to record
    recorded         \* RecordMetric calls of ticker loops and other callers

consumerVars == <<startPc, startI, startCreated, spawned>>
poolVars == <<workers, done, nextId, wpc, upc, lastWindowTime, pendingUtilization,
              isProcessing, processedCount>>
scalerVars == <<scalerPc, lastScaleEvent, eval>>
loopVars == <<batch, nextMsg, pollErrors, msg, metrics>>
collectorVars == <<metricValues, metricWindow, drainPc>>
taskVars == <<taskPc, outbox, recorded>>

vars == <<config, workers, done, nextId, startPc, startI, startCreated, spawned,
          mainPc, scalerPc, lastScaleEvent, now, eval, ret, panicked, wpc, upc,
          batch, isProcessing, processedCount, nextMsg, pollErrors, msg, metrics,
          metricValues, metricWindow, drainPc, lastWindowTime, pendingUtilization,
          taskPc, outbox, recorded>>

NoEval ==
    [ran |-> FALSE, queueDepth |-> 0, processingTime |-> 0, workerUtilization |-> 0,
     since |-> 0, called |-> "none"]

Returned(op, err) == [op |-> op, err |-> err]

\* A message: the worker that received it (0: none yet), whether that worker's
\* stop signal was raised already when the receive returned, what the handler
\* returned, whether the worker is through with it, and the calls made for it.
NoMsg ==
    [worker |-> 0, lateStop |-> FALSE, result |-> "none", finished |-> FALSE,
     deleteMessage |-> 0, changeVisibility |-> <<>>, errorSamples |-> 0]

(***************************************************************************)
(* NewConsumer, NewMetricsCollector, NewScaler and the go statements of    *)
(* main, for the configurations C, and the clock at t when the first of    *)
(* the goroutines runs.                                                    *)
(***************************************************************************)
InitWith(C, t) ==
    /\ config \in C
    /\ workers = {}
    /\ done = [w \in WorkerIds |-> FALSE]
    /\ nextId = 1
    /\ startPc = "adding"
    /\ startI = 0
    /\ startCreated = {}
    /\ spawned = {}
    /\ mainPc = "waiting"
    /\ scalerPc = "waiting"
    /\ lastScaleEvent = 0
    /\ now = t
    /\ eval = NoEval
    /\ ret = [op |-> "none", err |-> "nil"]
    /\ panicked = FALSE
    /\ wpc = [w \in WorkerIds |-> "none"]
    /\ upc = [w \in WorkerIds |-> "none"]
    /\ batch = [w \in WorkerIds |-> <<>>]
    /\ isProcessing = [w \in WorkerIds |-> FALSE]
    /\ processedCount = [w \in WorkerIds |-> 0]
    /\ nextMsg = 1
    /\ pollErrors = 0
    /\ msg = [m \in MsgIds |-> NoMsg]
    /\ metrics = <<>>
    /\ metricValues = [name \in {} |-> 0]
    /\ metricWindow = [name \in {} |-> <<>>]
    /\ drainPc = "none"
    /\ lastWindowTime = [w \in WorkerIds |-> 0]
    /\ pendingUtilization = [w \in WorkerIds |-> 0]
    /\ taskPc = [task \in Tasks |-> "none"]
    /\ outbox = [task \in Tasks |-> <<>>]
    /\ recorded = 0

Init == InitWith(Configs, 0)

(***************************************************************************)
(* Consumer.addWorker, under c.mu: NewWorker (which starts the worker's    *)
(* utilization ticker), the insertion, go worker.Start.                    *)
(***************************************************************************)
addWorkerOffByOne ==
    IF Cardinality(workers) > config.MaxWorkerCount
    THEN /\ ret' = Returned("addWorker", "max")
         /\ UNCHANGED poolVars
    ELSE /\ nextId <= MaxCreated
         /\ workers' = workers \cup {nextId}
         /\ nextId' = nextId + 1
         /\ upc' = [upc EXCEPT ![nextId] = "ticking"]
         /\ lastWindowTime' = [lastWindowTime EXCEPT ![nextId] = now]
         /\ wpc' = [wpc EXCEPT ![nextId] = "select"]
         /\ ret' = Returned("addWorker", "nil")
         /\ UNCHANGED <<done, pendingUtilization, isProcessing, processedCount>>

addWorker ==
    IF Cardinality(workers) >= config.MaxWorkerCount
    THEN /\ ret' = Returned("addWorker", "max")
         /\ UNCHANGED poolVars
    ELSE /\ nextId <= MaxCreated
         /\ workers' = workers \cup {nextId}
         /\ nextId' = nextId + 1
         /\ upc' = [upc EXCEPT ![nextId] = "ticking"]
         /\ lastWindowTime' = [lastWindowTime EXCEPT ![nextId] = now]
         /\ wpc' = [wpc EXCEPT ![nextId] = "select"]
         /\ ret' = Returned("addWorker", "nil")
         /\ UNCHANGED <<done, pendingUtilization, isProcessing, processedCount>>

(***************************************************************************)
(* Worker.Stop: close(w.done). Closing a closed channel panics.            *)
(***************************************************************************)
StopPanics(w) == done[w]

(***************************************************************************)
(* Consumer.removeWorker, under c.mu. The victim is the first key the map  *)
(* iteration yields: any worker of the pool.                               *)
(***************************************************************************)
removeWorkerNoFloor ==
    IF Cardinality(workers) < config.MinWorkerCount
    THEN /\ ret' = Returned("removeWorker", "min")
         /\ UNCHANGED <<poolVars, panicked>>
    ELSE \E workerToRemove \in workers :
            IF StopPanics(workerToRemove)
            THEN /\ panicked' = TRUE
                 /\ ret' = Returned("removeWorker", "panic")
                 /\ UNCHANGED poolVars
            ELSE /\ done' = [done EXCEPT ![workerToRemove] = TRUE]
                 /\ workers' = workers \ {workerToRemove}
                 /\ ret' = Returned("removeWorker", "nil")
                 /\ UNCHANGED <<nextId, wpc, upc, lastWindowTime, pendingUtilization, isProcessing, processedCount,
                                panicked>>

removeWorkerNoStop ==
    IF Cardinality(workers) <= config.MinWorkerCount
    THEN /\ ret' = Returned("removeWorker", "min")
         /\ UNCHANGED <<poolVars, panicked>>
    ELSE \E workerToRemove \in workers :
            /\ workers' = workers \ {workerToRemove}
            /\ ret' = Returned("removeWorker", "nil")
            /\ UNCHANGED <<done, nextId, wpc, upc, lastWindowTime,
                           pendingUtilization, isProcessing, processedCount,
                           panicked>>

removeWorker ==
    IF Cardinality(workers) <= config.MinWorkerCount
    THEN /\ ret' = Returned("removeWorker", "min")
         /\ UNCHANGED <<poolVars, panicked>>
    ELSE \E workerToRemove \in workers :
            IF StopPanics(workerToRemove)
            THEN /\ panicked' = TRUE
                 /\ ret' = Returned("removeWorker", "panic")
                 /\ UNCHANGED poolVars
            ELSE /\ done' = [done EXCEPT ![workerToRemove] = TRUE]
                 /\ workers' = workers \ {workerToRemove}
                 /\ ret' = Returned("removeWorker", "nil")
                 /\ UNCHANGED <<nextId, wpc, upc, lastWindowTime, pendingUtilization, isProcessing, processedCount,
                                panicked>>

(***************************************************************************)
(* Consumer.Shutdown, under c.mu: Stop every worker of the map, in map     *)
(* order. It panics at the first worker whose channel is closed already,   *)
(* having stopped the workers the iteration yielded before that one.       *)
(***************************************************************************)
ShutdownStopsOne ==
    \E first \in workers :
        /\ ~StopPanics(first)
        /\ done' = [done EXCEPT ![first] = TRUE]
        /\ ret' = Returned("Shutdown", "nil")
        /\ UNCHANGED <<workers, nextId, wpc, upc, lastWindowTime, pendingUtilization, isProcessing, processedCount,
                       panicked>>

Shutdown ==
    LET open == {w \in workers : ~StopPanics(w)} IN
    IF open = workers
    THEN /\ done' = [w \in WorkerIds |-> done[w] \/ w \in workers]
         /\ ret' = Returned("Shutdown", "nil")
         /\ UNCHANGED <<workers, nextId, wpc, upc, lastWindowTime, pendingUtilization, isProcessing, processedCount,
                        panicked>>
    ELSE \E stoppedFirst \in SUBSET open :
            /\ done' = [w \in WorkerIds |-> done[w] \/ w \in stoppedFirst]
            /\ panicked' = TRUE
            /\ ret' = Returned("Shutdown", "panic")
            /\ UNCHANGED <<workers, nextId, wpc, upc, lastWindowTime, pendingUtilization, isProcessing, processedCount>>

(***************************************************************************)
(* Consumer.Start: one iteration of the loop over InitialWorkerCount, and  *)
(* the return after it.                                                    *)
(***************************************************************************)
ConsumerStartAddWorker ==
    /\ ~panicked
    /\ startPc = "adding"
    /\ startI < config.InitialWorkerCount
    /\ addWorker
    /\ IF ret'.err = "nil"
       THEN /\ startI' = startI + 1
            /\ startCreated' = startCreated \cup {nextId}
            /\ UNCHANGED startPc
       ELSE /\ startPc' = "failed"
            /\ UNCHANGED <<startI, startCreated>>
    /\ UNCHANGED <<config, taskVars, collectorVars, spawned, mainPc, scalerVars, now, panicked, loopVars>>

ConsumerStartReturn ==
    /\ ~panicked
    /\ startPc = "adding"
    /\ startI >= config.InitialWorkerCount
    /\ spawned' = {"reportMetrics", "monitorQueueDepth"}
    /\ taskPc' = [taskPc EXCEPT !["reportMetrics"] = "waiting",
                                !["monitorQueueDepth"] = "waiting"]
    /\ startPc' = "returned"
    /\ UNCHANGED <<config, outbox, recorded, collectorVars, poolVars, startI,
                   startCreated, mainPc, scalerVars, now, ret, panicked, loopVars>>

(***************************************************************************)
(* Scaler.shouldScaleUp, Scaler.shouldScaleDown. processingTime is the     *)
(* average the collector holds (milliseconds), compared as it is with      *)
(* TargetProcessingTime.Seconds().                                         *)
(***************************************************************************)
shouldScaleUpAllArms(queueDepth, processingTime, utilization) ==
    /\ queueDepth > ScaleUpThreshold
    /\ utilization > UtilizationUp
    /\ processingTime > TargetProcessingTimeSeconds

shouldScaleUp(queueDepth, processingTime, utilization) ==
    \/ queueDepth > ScaleUpThreshold
    \/ utilization > UtilizationUp
    \/ processingTime > TargetProcessingTimeSeconds

shouldScaleDown(queueDepth, processingTime, utilization) ==
    /\ queueDepth < ScaleDownThreshold
    /\ utilization < UtilizationDown
    /\ processingTime < TargetProcessingTimeSeconds

\* time.Since(s.lastScaleEvent) > s.config.CooldownPeriod
CooldownElapsedAtBoundary == now - lastScaleEvent >= config.CooldownPeriod

CooldownElapsed == now - lastScaleEvent > config.CooldownPeriod

(***************************************************************************)
(* Scaler.evaluateScaling with the three readings of the collector.        *)
(***************************************************************************)
Evaluated(queueDepth, processingTime, utilization, called) ==
    [ran |-> TRUE, queueDepth |-> queueDepth, processingTime |-> processingTime,
     workerUtilization |-> utilization, since |-> now - lastScaleEvent,
     called |-> called]

evaluateScalingFallsThrough(queueDepth, processingTime, workerUtilization) ==
    IF shouldScaleUp(queueDepth, processingTime, workerUtilization)
    THEN /\ nextId <= MaxCreated
         /\ \E workerToRemove \in workers :
               /\ workers' = (workers \cup {nextId}) \ {workerToRemove}
               /\ done' = [done EXCEPT ![workerToRemove] = TRUE]
         /\ nextId' = nextId + 1
         /\ upc' = [upc EXCEPT ![nextId] = "ticking"]
         /\ lastWindowTime' = [lastWindowTime EXCEPT ![nextId] = now]
         /\ wpc' = [wpc EXCEPT ![nextId] = "select"]
         /\ ret' = Returned("removeWorker", "nil")
         /\ lastScaleEvent' = now
         /\ eval' = Evaluated(queueDepth, processingTime, workerUtilization,
                              "addWorker")
         /\ UNCHANGED <<pendingUtilization, isProcessing, processedCount,
                        panicked>>
    ELSE /\ eval' = Evaluated(queueDepth, processingTime, workerUtilization,
                              "none")
         /\ UNCHANGED <<poolVars, lastScaleEvent, ret, panicked>>

evaluateScaling(queueDepth, processingTime, workerUtilization) ==
    IF shouldScaleUp(queueDepth, processingTime, workerUtilization)
    THEN /\ addWorker
         /\ lastScaleEvent' = now
         /\ eval' = Evaluated(queueDepth, processingTime, workerUtilization,
                              "addWorker")
         /\ UNCHANGED panicked
    ELSE IF /\ shouldScaleDown(queueDepth, processingTime, workerUtilization)
            /\ CooldownElapsed
         THEN /\ removeWorker
              /\ lastScaleEvent' = IF panicked' THEN lastScaleEvent ELSE now
              /\ eval' = Evaluated(queueDepth, processingTime, workerUtilization,
                                   "removeWorker")
         ELSE /\ eval' = Evaluated(queueDepth, processingTime, workerUtilization,
                                   "none")
              /\ UNCHANGED <<poolVars, lastScaleEvent, ret, panicked>>

\* Scaler.Start: case <-ticker.C, the collector holding one of the readings R
ScalerTick(R) ==
    /\ ~panicked
    /\ scalerPc = "waiting"
    /\ \E r \in R : evaluateScaling(r[1], r[2], r[3])
    /\ UNCHANGED <<config, taskVars, collectorVars, consumerVars, mainPc, scalerPc, now, loopVars>>

\* Scaler.Start: case <-ctx.Done()
ScalerExit ==
    /\ ~panicked
    /\ scalerPc = "waiting"
    /\ mainPc # "waiting"
    /\ scalerPc' = "exited"
    /\ UNCHANGED <<config, taskVars, collectorVars, poolVars, consumerVars, mainPc, lastScaleEvent, now,
                   eval, ret, panicked, loopVars>>

(***************************************************************************)
(* main: the signal arrives, cancel(), then sqsConsumer.Shutdown().        *)
(***************************************************************************)
MainCancel ==
    /\ ~panicked
    /\ mainPc = "waiting"
    /\ mainPc' = "cancelled"
    /\ UNCHANGED <<config, taskVars, collectorVars, poolVars, consumerVars, scalerVars, now, ret, panicked,
                   loopVars>>

MainShutdown ==
    /\ ~panicked
    /\ mainPc = "cancelled"
    /\ Shutdown
    /\ mainPc' = IF panicked' THEN mainPc ELSE "done"
    /\ UNCHANGED <<config, taskVars, collectorVars, consumerVars, scalerVars, now, loopVars>>

\* The clock advances.
AdvanceClock ==
    /\ ~panicked
    /\ now < MaxTime
    /\ now' = now + 1
    /\ UNCHANGED <<config, taskVars, collectorVars, poolVars, consumerVars, mainPc, scalerVars, ret,
                   panicked, loopVars>>

(***************************************************************************)
(* The pool: Consumer.Start, the scaler and main. Worker goroutines touch  *)
(* none of the pool's state, so they are left unscheduled here.            *)
(***************************************************************************)
Next ==
    \/ ConsumerStartAddWorker
    \/ ConsumerStartReturn
    \/ ScalerTick(PoolReadings)
    \/ ScalerExit
    \/ MainCancel
    \/ MainShutdown
    \/ AdvanceClock

Spec == Init /\ [][Next]_vars

(***************************************************************************)
(* The scaler: every reading of the collector, on small pools.             *)
(***************************************************************************)
InitScaler == InitWith(ScalerConfigs, 0)

NextScaler ==
    \/ ConsumerStartAddWorker
    \/ ConsumerStartReturn
    \/ ScalerTick(Readings)
    \/ ScalerExit
    \/ MainCancel
    \/ MainShutdown
    \/ AdvanceClock

SpecScaler == InitScaler /\ [][NextScaler]_vars

(***************************************************************************)
(* MetricsCollector.RecordMetric: stamp the sample and send it on the      *)
(* metrics channel; the send blocks while the buffer is full.              *)
(***************************************************************************)
RecordMetric(name, value) ==
    /\ Len(metrics) < MetricsCapacity
    /\ metrics' = Append(metrics, [Name |-> name, Value |-> value,
                                   Timestamp |-> now])

\* The two halves of RecordMetric for a caller that can wait at the send while
\* the clock moves on: the Metric it builds on entry, and the send c.metrics <-
\* metric.
StampedMetric(name, value) == [Name |-> name, Value |-> value, Timestamp |-> now]

SendMetric(metric) ==
    /\ Len(metrics) < MetricsCapacity
    /\ metrics' = Append(metrics, metric)

\* "Error_" + errorType
ErrorName(errorType) ==
    CASE errorType = "poll_error" -> "Error_poll_error"
      [] errorType = "processing_error" -> "Error_processing_error"
      [] errorType = "queue_depth_fetch_error" -> "Error_queue_depth_fetch_error"
      [] errorType = "queue_depth_parse_error" -> "Error_queue_depth_parse_error"
      [] errorType = "in_flight_messages_parse_error" ->
             "Error_in_flight_messages_parse_error"

\* MetricsCollector.RecordError: "Error_" + errorType, value 1
RecordError(errorType) == RecordMetric(ErrorName(errorType), 1)

\* MetricsCollector.RecordProcessingTime: the duration in milliseconds
RecordProcessingTime(millis) == RecordMetric("ProcessingTime", millis)

(***************************************************************************)
(* MetricsCollector.GetMetric and GetMetricAverage, under c.mu.RLock. The  *)
(* average is a float64 quotient in the program; every average the         *)
(* specifications below compute is over values whose sum the number of     *)
(* points divides, where the integer quotient is that quotient.            *)
(***************************************************************************)
GetMetric(name) ==
    IF name \in DOMAIN metricValues THEN metricValues[name] ELSE 0

\* c.metricWindow[name]: the nil slice for a name that is not in the map
WindowOf(name) ==
    IF name \in DOMAIN metricWindow THEN metricWindow[name] ELSE <<>>

AfterOrAt(timestamp, cutoff) == timestamp >= cutoff

\* dp.Timestamp.After(cutoff)
After(timestamp, cutoff) == timestamp > cutoff

RECURSIVE SumOfValues(_)
SumOfValues(dataPoints) ==
    IF dataPoints = <<>> THEN 0
    ELSE Head(dataPoints).Value + SumOfValues(Tail(dataPoints))

GetMetricAverageOfWholeWindow(name, duration) ==
    LET dataPoints == WindowOf(name)
    IN  IF Len(dataPoints) = 0 THEN 0
        ELSE SumOfValues(dataPoints) \div Len(dataPoints)

GetMetricAverage(name, duration) ==
    LET dataPoints == WindowOf(name)
        cutoff == now - duration
        counted == SelectSeq(dataPoints, LAMBDA dp : After(dp.Timestamp, cutoff))
    IN  IF Len(dataPoints) = 0 THEN 0
        ELSE IF Len(counted) = 0 THEN 0
        ELSE SumOfValues(counted) \div Len(counted)

(***************************************************************************)
(* MetricsCollector.cleanupOldDataPoints on the slice of one name:         *)
(* keepIndex is the (0-based) index of the first data point younger than   *)
(* the retention, and stays 0 when there is none.                          *)
(***************************************************************************)
cleanupOldDataPoints(dataPoints) ==
    LET cutoff == now - Retention
        young == {i \in 1..Len(dataPoints) : After(dataPoints[i].Timestamp, cutoff)}
        keepIndex == IF young = {} THEN 0
                     ELSE (CHOOSE i \in young : \A j \in young : i <= j) - 1
    IN  IF keepIndex > 0
        THEN SubSeq(dataPoints, keepIndex + 1, Len(dataPoints))
        ELSE dataPoints

processMetricKeepsFirst(metric) ==
    LET dataPoint == [Value |-> metric.Value, Timestamp |-> metric.Timestamp] IN
    /\ metricValues' = [name \in DOMAIN metricValues \cup {metric.Name} |->
                           IF name \in DOMAIN metricValues
                           THEN metricValues[name] ELSE metric.Value]
    /\ metricWindow' = [name \in DOMAIN metricWindow \cup {metric.Name} |->
                           IF name = metric.Name
                           THEN cleanupOldDataPoints(
                                    Append(WindowOf(metric.Name), dataPoint))
                           ELSE metricWindow[name]]

\* MetricsCollector.processMetric, under c.mu
processMetric(metric) ==
    LET dataPoint == [Value |-> metric.Value, Timestamp |-> metric.Timestamp] IN
    /\ metricValues' = [name \in DOMAIN metricValues \cup {metric.Name} |->
                           IF name = metric.Name THEN metric.Value
                           ELSE metricValues[name]]
    /\ metricWindow' = [name \in DOMAIN metricWindow \cup {metric.Name} |->
                           IF name = metric.Name
                           THEN cleanupOldDataPoints(
                                    Append(WindowOf(metric.Name), dataPoint))
                           ELSE metricWindow[name]]

\* main's cancel() has been called: ctx.Done() is closed
ctxDone == mainPc # "waiting"

(***************************************************************************)
(* MetricsCollector.Start: it starts the goroutine that receives from the  *)
(* channel and goes into its publishing loop. publishMetrics reads the     *)
(* current values and changes nothing of the collector, so the loop has no *)
(* action of its own.                                                      *)
(***************************************************************************)
CollectorStart ==
    /\ ~panicked
    /\ drainPc = "none"
    /\ drainPc' = "draining"
    /\ taskPc' = [taskPc EXCEPT !["publishMetrics"] = "waiting"]
    /\ UNCHANGED <<config, outbox, recorded, poolVars, consumerVars, mainPc,
                   scalerVars, now, ret, panicked, loopVars, metricValues,
                   metricWindow>>

\* the receiving goroutine: case metric := <-c.metrics
MetricsDrain ==
    /\ ~panicked
    /\ drainPc = "draining"
    /\ metrics # <<>>
    /\ processMetric(Head(metrics))
    /\ metrics' = Tail(metrics)
    /\ UNCHANGED <<config, taskVars, poolVars, consumerVars, mainPc, scalerVars, now, ret,
                   panicked, batch, nextMsg, pollErrors, msg, drainPc>>

\* the receiving goroutine: case <-ctx.Done()
DrainExit ==
    /\ ~panicked
    /\ drainPc = "draining"
    /\ ctxDone
    /\ drainPc' = "exited"
    /\ UNCHANGED <<config, taskVars, poolVars, consumerVars, mainPc, scalerVars, now, ret,
                   panicked, loopVars, metricValues, metricWindow>>

\* What the scaler reads from the collector on a tick.
Collected ==
    <<GetMetric("QueueDepth"),
      GetMetricAverage("ProcessingTime", AverageWindow),
      GetMetricAverage("WorkerUtilization", AverageWindow)>>

(***************************************************************************)
(* Worker.Start: the select at the top of the loop. The context is         *)
(* context.Background(), which is never done.                              *)
(***************************************************************************)
WorkerSelect(w) ==
    /\ ~panicked
    /\ wpc[w] = "select"
    /\ wpc' = [wpc EXCEPT ![w] = IF done[w] THEN "exited" ELSE "poll"]
    /\ UNCHANGED <<config, taskVars, collectorVars, workers, done, nextId, upc, lastWindowTime, pendingUtilization, isProcessing, processedCount,
                   consumerVars, mainPc, scalerVars, now, ret, panicked, loopVars>>

(***************************************************************************)
(* Worker.pollMessages returns: an error, or a batch of messages (each a   *)
(* fresh receipt). With a batch in hand the worker goes into the loop over *)
(* its messages: isProcessing.Store(true), processMessage.                 *)
(***************************************************************************)
Received(w, k) == {m \in MsgIds : nextMsg <= m /\ m < nextMsg + k}

WorkerPollReturnsBatch(w, sizes) ==
    /\ ~panicked
    /\ wpc[w] = "poll"
    /\ \E k \in sizes :
          /\ nextMsg + k - 1 <= MaxMsgs
          /\ batch' = [batch EXCEPT ![w] = [i \in 1..k |-> nextMsg + i - 1]]
          /\ nextMsg' = nextMsg + k
          /\ msg' = [m \in MsgIds |->
                        IF m \in Received(w, k)
                        THEN [msg[m] EXCEPT !.worker = w, !.lateStop = done[w]]
                        ELSE msg[m]]
          /\ wpc' = [wpc EXCEPT ![w] = IF k = 0 THEN "select" ELSE "handler"]
          /\ isProcessing' = [isProcessing EXCEPT ![w] = (k > 0)]
    /\ UNCHANGED <<config, taskVars, collectorVars, workers, done, nextId, upc, lastWindowTime, pendingUtilization, processedCount, consumerVars,
                   mainPc, scalerVars, now, ret, panicked, pollErrors, metrics>>

\* the batch is of any size up to MaxNumberOfMessages
WorkerPollReturns(w) == WorkerPollReturnsBatch(w, 0..MaxBatch)

WorkerPollFails(w) ==
    /\ ~panicked
    /\ wpc[w] = "poll"
    /\ pollErrors < MaxPollErrors
    /\ pollErrors' = pollErrors + 1
    /\ wpc' = [wpc EXCEPT ![w] = "pollError"]
    /\ UNCHANGED <<config, taskVars, collectorVars, workers, done, nextId, upc, lastWindowTime, pendingUtilization, isProcessing, processedCount,
                   consumerVars, mainPc, scalerVars, now, ret, panicked, batch,
                   nextMsg, msg, metrics>>

\* RecordError("poll_error"), time.Sleep(1 * time.Second), continue
WorkerRecordPollError(w) ==
    /\ ~panicked
    /\ wpc[w] = "pollError"
    /\ RecordError("poll_error")
    /\ wpc' = [wpc EXCEPT ![w] = "select"]
    /\ UNCHANGED <<config, taskVars, collectorVars, workers, done, nextId, upc, lastWindowTime, pendingUtilization, isProcessing, processedCount,
                   consumerVars, mainPc, scalerVars, now, ret, panicked, batch,
                   nextMsg, pollErrors, msg>>

(***************************************************************************)
(* Worker.deleteMessage and the calls of Worker.handleError, as the calls  *)
(* recorded for the message.                                               *)
(***************************************************************************)
deleteMessage(r) == [r EXCEPT !.deleteMessage = @ + 1]

handleErrorNoVisibilityReset(r) == [r EXCEPT !.errorSamples = @ + 1]

handleError(r) ==
    [r EXCEPT !.errorSamples = @ + 1,
              !.changeVisibility = Append(@, VisibilityReset)]

(***************************************************************************)
(* Worker.Start: processMessage returns for the message at the head of the *)
(* batch. nil: deleteMessage, processedCount.Add(1), isProcessing.Store(   *)
(* false). An error: handleError is entered.                               *)
(***************************************************************************)
WorkerProcessMessage(w) ==
    /\ ~panicked
    /\ wpc[w] = "handler"
    /\ \E result \in HandlerResults :
          LET m == Head(batch[w]) IN
          IF result = "nil"
          THEN /\ msg' = [msg EXCEPT ![m] =
                             [deleteMessage(@) EXCEPT !.result = "nil",
                                                      !.finished = TRUE]]
               /\ processedCount' = [processedCount EXCEPT ![w] = @ + 1]
               /\ isProcessing' = [isProcessing EXCEPT ![w] = FALSE]
               /\ wpc' = [wpc EXCEPT ![w] = "recordTime"]
          ELSE /\ msg' = [msg EXCEPT ![m].result = "err"]
               /\ wpc' = [wpc EXCEPT ![w] = "handleError"]
               /\ UNCHANGED <<processedCount, isProcessing>>
    /\ UNCHANGED <<config, taskVars, collectorVars, workers, done, nextId, upc, lastWindowTime, pendingUtilization, consumerVars, mainPc,
                   scalerVars, now, ret, panicked, batch, nextMsg, pollErrors,
                   metrics>>

\* Worker.handleError: RecordError("processing_error"), ChangeMessageVisibility;
\* then isProcessing.Store(false)
WorkerHandleError(w) ==
    /\ ~panicked
    /\ wpc[w] = "handleError"
    /\ RecordError("processing_error")
    /\ msg' = [msg EXCEPT ![Head(batch[w])] =
                  [handleError(@) EXCEPT !.finished = TRUE]]
    /\ isProcessing' = [isProcessing EXCEPT ![w] = FALSE]
    /\ wpc' = [wpc EXCEPT ![w] = "recordTime"]
    /\ UNCHANGED <<config, taskVars, collectorVars, workers, done, nextId, upc, lastWindowTime, pendingUtilization, processedCount, consumerVars,
                   mainPc, scalerVars, now, ret, panicked, batch, nextMsg,
                   pollErrors>>

(***************************************************************************)
(* Worker.Start: where the loop goes after a message: on to the next       *)
(* message of the batch, or back to the select when the batch is done.     *)
(***************************************************************************)
AfterMessageChecksDone(w) ==
    IF done[w] THEN "exited"
    ELSE IF Len(batch[w]) > 1 THEN "handler" ELSE "select"

AfterMessage(w) == IF Len(batch[w]) > 1 THEN "handler" ELSE "select"

\* RecordProcessingTime(processingDuration), and the next iteration
WorkerRecordProcessingTime(w) ==
    /\ ~panicked
    /\ wpc[w] = "recordTime"
    /\ RecordProcessingTime(ProcessingMillis)
    /\ batch' = [batch EXCEPT ![w] = Tail(@)]
    /\ wpc' = [wpc EXCEPT ![w] = AfterMessage(w)]
    /\ isProcessing' = [isProcessing EXCEPT ![w] = (AfterMessage(w) = "handler")]
    /\ UNCHANGED <<config, taskVars, collectorVars, workers, done, nextId, upc, lastWindowTime, pendingUtilization, processedCount, consumerVars,
                   mainPc, scalerVars, now, ret, panicked, nextMsg, pollErrors, msg>>

(***************************************************************************)
(* Worker.trackUtilization. case <-ticker.C: lastWindowTime.Swap(now), and *)
(* over a window of at least a second processedCount.Swap(0), the          *)
(* utilization (processed / timeWindow * 100, here the integer part of it) *)
(* capped at 100, and RecordWorkerUtilization, whose Metric is stamped in  *)
(* the second of the tick and whose send can wait.                         *)
(***************************************************************************)
Uncapped(utilization) == utilization

Capped(utilization) ==
    IF utilization > UtilizationCap THEN UtilizationCap ELSE utilization

UtilizationOf(processed, timeWindow) ==
    Capped((processed * 100) \div timeWindow)

UtilizationTick(w) ==
    /\ ~panicked
    /\ upc[w] = "ticking"
    /\ recorded < MaxSamples
    /\ now - lastWindowTime[w] > 0
    /\ lastWindowTime' = [lastWindowTime EXCEPT ![w] = now]
    /\ processedCount' = [processedCount EXCEPT ![w] = 0]
    /\ pendingUtilization' =
           [pendingUtilization EXCEPT
               ![w] = UtilizationOf(processedCount[w], now - lastWindowTime[w])]
    /\ upc' = [upc EXCEPT ![w] = "recording"]
    /\ recorded' = recorded + 1
    /\ UNCHANGED <<config, taskPc, outbox, collectorVars, workers, done, nextId,
                   wpc, isProcessing, consumerVars, mainPc, scalerVars, now, ret,
                   panicked, loopVars>>

\* the send of RecordWorkerUtilization, and back to the select
UtilizationRecord(w) ==
    /\ ~panicked
    /\ upc[w] = "recording"
    /\ SendMetric([Name |-> "WorkerUtilization",
                   Value |-> pendingUtilization[w],
                   Timestamp |-> lastWindowTime[w]])
    /\ upc' = [upc EXCEPT ![w] = "ticking"]
    /\ UNCHANGED <<config, taskVars, collectorVars, workers, done, nextId, wpc,
                   lastWindowTime, pendingUtilization, isProcessing,
                   processedCount, consumerVars, mainPc, scalerVars, now, ret,
                   panicked, batch, nextMsg, pollErrors, msg>>

\* case <-w.done
UtilizationExit(w) ==
    /\ ~panicked
    /\ upc[w] = "ticking"
    /\ done[w]
    /\ upc' = [upc EXCEPT ![w] = "exited"]
    /\ UNCHANGED <<config, taskVars, collectorVars, workers, done, nextId, wpc,
                   lastWindowTime, pendingUtilization, isProcessing,
                   processedCount, consumerVars, mainPc, scalerVars, now, ret,
                   panicked, loopVars>>

(***************************************************************************)
(* Consumer.reportMetrics, case <-ticker.C: under c.mu.RLock it counts the *)
(* workers and those that are processing; then RecordMetric(WorkerCount)   *)
(* and, for a pool that is not empty, RecordWorkerUtilization(active /     *)
(* count * 100) (here the integer part of it). The calls wait in outbox    *)
(* until the loop makes them.                                              *)
(***************************************************************************)
Call(name, value) == [Name |-> name, Value |-> value]

ReportTick ==
    LET workerCount == Cardinality(workers)
        activeWorkers == Cardinality({w \in workers : isProcessing[w]})
        calls == <<Call("WorkerCount", workerCount)>> \o
                 (IF workerCount > 0
                  THEN <<Call("WorkerUtilization",
                              (activeWorkers * 100) \div workerCount)>>
                  ELSE <<>>)
    IN  /\ ~panicked
        /\ taskPc["reportMetrics"] = "waiting"
        /\ recorded + Len(calls) <= MaxSamples
        /\ outbox' = [outbox EXCEPT !["reportMetrics"] = calls]
        /\ taskPc' = [taskPc EXCEPT !["reportMetrics"] = "recording"]
        /\ recorded' = recorded + Len(calls)
        /\ UNCHANGED <<config, collectorVars, poolVars, consumerVars, mainPc,
                       scalerVars, now, ret, panicked, loopVars>>

(***************************************************************************)
(* Consumer.monitorQueueDepth, case <-ticker.C: GetQueueAttributes fails,  *)
(* or returns attributes, each of them absent, or not a number, or a       *)
(* number.                                                                 *)
(***************************************************************************)
Absent == [present |-> FALSE, parses |-> FALSE, n |-> 0]
Garbled == [present |-> TRUE, parses |-> FALSE, n |-> 0]
Number(n) == [present |-> TRUE, parses |-> TRUE, n |-> n]

\* what GetQueueAttributes can return
QueueAttributes ==
    [err : {TRUE}, visible : {Absent}, notVisible : {Absent}]
    \cup [err : {FALSE},
          visible : {Absent, Garbled} \cup {Number(n) : n \in VisibleCounts},
          notVisible : {Absent, Garbled, Number(0)}]

\* the calls one attribute leads to
AttributeCalls(attr, name, errorType) ==
    IF ~attr.present THEN <<>>
    ELSE IF attr.parses THEN <<Call(name, attr.n)>>
    ELSE <<Call(ErrorName(errorType), 1)>>

MonitorTick ==
    /\ ~panicked
    /\ taskPc["monitorQueueDepth"] = "waiting"
    /\ \E attrs \in QueueAttributes :
          LET calls ==
                  IF attrs.err
                  THEN <<Call(ErrorName("queue_depth_fetch_error"), 1)>>
                  ELSE AttributeCalls(attrs.visible, "QueueDepth",
                                      "queue_depth_parse_error") \o
                       AttributeCalls(attrs.notVisible, "InFlightMessages",
                                      "in_flight_messages_parse_error")
          IN  /\ recorded + Len(calls) <= MaxSamples
              /\ recorded' = recorded + Len(calls)
              /\ outbox' = [outbox EXCEPT !["monitorQueueDepth"] = calls]
              /\ taskPc' = [taskPc EXCEPT !["monitorQueueDepth"] =
                                IF calls = <<>> THEN "waiting" ELSE "recording"]
    /\ UNCHANGED <<config, collectorVars, poolVars, consumerVars, mainPc,
                   scalerVars, now, ret, panicked, loopVars>>

\* a ticker loop enters the next RecordMetric of its tick: the Metric is built
TaskCall(task) ==
    /\ ~panicked
    /\ taskPc[task] = "recording"
    /\ outbox' = [outbox EXCEPT ![task] =
                      <<StampedMetric(Head(@).Name, Head(@).Value)>> \o Tail(@)]
    /\ taskPc' = [taskPc EXCEPT ![task] = "sending"]
    /\ UNCHANGED <<config, recorded, collectorVars, poolVars, consumerVars,
                   mainPc, scalerVars, now, ret, panicked, loopVars>>

\* the send of that RecordMetric; after the last call of the tick, the select
TaskSend(task) ==
    /\ ~panicked
    /\ taskPc[task] = "sending"
    /\ SendMetric(Head(outbox[task]))
    /\ outbox' = [outbox EXCEPT ![task] = Tail(@)]
    /\ taskPc' = [taskPc EXCEPT ![task] =
                      IF Len(outbox[task]) > 1 THEN "recording" ELSE "waiting"]
    /\ UNCHANGED <<config, recorded, collectorVars, poolVars, consumerVars,
                   mainPc, scalerVars, now, ret, panicked, batch, nextMsg,
                   pollErrors, msg>>

\* reportMetrics, monitorQueueDepth, MetricsCollector.Start: case <-ctx.Done()
TaskExit(task) ==
    /\ ~panicked
    /\ taskPc[task] = "waiting"
    /\ ctxDone
    /\ taskPc' = [taskPc EXCEPT ![task] = "exited"]
    /\ UNCHANGED <<config, outbox, recorded, collectorVars, poolVars,
                   consumerVars, mainPc, scalerVars, now, ret, panicked,
                   loopVars>>

\* The clock jumps to a later one of some instants.
ClockJumpTo(instants) ==
    /\ ~panicked
    /\ \E t \in instants : t > now /\ now' = t
    /\ UNCHANGED <<config, taskVars, collectorVars, poolVars, consumerVars,
                   mainPc, scalerVars, ret, panicked, loopVars>>

ClockJump == ClockJumpTo(Instants)

(***************************************************************************)
(* Worker.Start between two ticks of the utilization ticker, as far as the *)
(* ticker sees it: the loop has handled some more messages without error,  *)
(* processedCount.Add(1) for each. (What the loop does for each message is *)
(* in WorkerProcessMessage and WorkerRecordProcessingTime.)                *)
(***************************************************************************)
WorkerProcessesMessages(w) ==
    /\ ~panicked
    /\ wpc[w] \notin {"none", "exited"}
    /\ \E k \in ProcessedBetweenTicks :
          /\ processedCount[w] + k <= MaxProcessed
          /\ processedCount' = [processedCount EXCEPT ![w] = @ + k]
    /\ UNCHANGED <<config, taskVars, collectorVars, workers, done, nextId, wpc,
                   upc, lastWindowTime, pendingUtilization, isProcessing,
                   consumerVars, mainPc, scalerVars, now, ret, panicked,
                   loopVars>>

(***************************************************************************)
(* The workers: a pool of two workers that the scaler can shrink to one    *)
(* and main shuts down, each worker running its loop, the collector        *)
(* receiving what the workers record and the scaler reading the collector. *)
(* The goroutines get to run when the cooldown has passed, and the clock   *)
(* stands still while they do. Nothing records QueueDepth or               *)
(* WorkerUtilization here: the scaler reads 0 for both.                    *)
(***************************************************************************)
InitWorker == InitWith(WorkerConfigs, MaxCooldown + 1)

NextWorker ==
    \/ ConsumerStartAddWorker
    \/ ConsumerStartReturn
    \/ ScalerTick({Collected})
    \/ ScalerExit
    \/ CollectorStart
    \/ MetricsDrain
    \/ DrainExit
    \/ MainCancel
    \/ MainShutdown
    \/ \E w \in WorkerIds : WorkerSelect(w)
    \/ \E w \in WorkerIds : WorkerPollReturns(w)
    \/ \E w \in WorkerIds : WorkerPollFails(w)
    \/ \E w \in WorkerIds : WorkerRecordPollError(w)
    \/ \E w \in WorkerIds : WorkerProcessMessage(w)
    \/ \E w \in WorkerIds : WorkerHandleError(w)
    \/ \E w \in WorkerIds : WorkerRecordProcessingTime(w)

SpecWorker == InitWorker /\ [][NextWorker]_vars

(***************************************************************************)
(* The collector: a pool of one worker that waits in its poll, the ticker  *)
(* loops of the consumer and the worker's utilization ticker recording     *)
(* samples while the clock moves, and the collector receiving them.        *)
(***************************************************************************)
CollectorConfigs ==
    {c \in Configs : c.MinWorkerCount = 1 /\ c.InitialWorkerCount = 1
                         /\ c.MaxWorkerCount = 1}

InitCollector == InitWith(CollectorConfigs, 0)

NextCollector ==
    \/ ConsumerStartAddWorker
    \/ ConsumerStartReturn
    \/ CollectorStart
    \/ MetricsDrain
    \/ ReportTick
    \/ MonitorTick
    \/ \E task \in Tasks : TaskCall(task)
    \/ \E task \in Tasks : TaskSend(task)
    \/ \E w \in WorkerIds : UtilizationTick(w)
    \/ \E w \in WorkerIds : UtilizationRecord(w)
    \/ ClockJump

SpecCollector == InitCollector /\ [][NextCollector]_vars

(***************************************************************************)
(* The utilization ticker: a pool of one worker that handles messages, its *)
(* ticker reporting every second, ten seconds or later, the collector      *)
(* receiving the reports, and main cancelling and shutting down, at which  *)
(* the loops return.                                                       *)
(***************************************************************************)
InitUtilization == InitWith(CollectorConfigs, 0)

NextUtilization ==
    \/ ConsumerStartAddWorker
    \/ ConsumerStartReturn
    \/ CollectorStart
    \/ MetricsDrain
    \/ DrainExit
    \/ MainCancel
    \/ MainShutdown
    \/ ScalerExit
    \/ \E task \in Tasks : TaskExit(task)
    \/ \E w \in WorkerIds : WorkerProcessesMessages(w)
    \/ \E w \in WorkerIds : UtilizationTick(w)
    \/ \E w \in WorkerIds : UtilizationRecord(w)
    \/ \E w \in WorkerIds : UtilizationExit(w)
    \/ ClockJumpTo(TickInstants)

SpecUtilization == InitUtilization /\ [][NextUtilization]_vars

(***************************************************************************)
(* Properties of the pool, checked under Spec.                             *)
(***************************************************************************)
Size(S) == Cardinality(S)

\* A step in which addWorker was called: it leaves its result in ret, and a
\* call that succeeds mints an id.
AddWorkerCalled == ret'.op = "addWorker" /\ (ret' # ret \/ nextId' # nextId)

\* A step in which removeWorker was called.
RemoveWorkerCalled ==
    /\ ret'.op = "removeWorker"
    /\ (ret' # ret \/ workers' # workers \/ panicked' # panicked)

\* C1: with 1 <= min <= initial <= max, in every state after Consumer.Start
\* has returned nil, whatever addWorker, removeWorker and Shutdown calls the
\* other goroutines interleave, MinWorkerCount <= |workers| <= MaxWorkerCount.
C1_PoolWithinBounds ==
    startPc = "returned" =>
        /\ config.MinWorkerCount <= Size(workers)
        /\ Size(workers) <= config.MaxWorkerCount

\* Start has returned, the scaler has added a worker and removeWorker has
\* taken the pool back to its floor.
C1_Witness ==
    /\ startPc = "returned"
    /\ nextId - 1 > config.InitialWorkerCount
    /\ ret = Returned("removeWorker", "nil")
    /\ Size(workers) = config.MinWorkerCount
    /\ config.MinWorkerCount < config.MaxWorkerCount

\* C2: addWorker called with |workers| = max returns the max-reached error and
\* constructs, inserts and starts nothing; called with |workers| < max it
\* returns nil and the pool has grown by exactly one worker.
C2_AddWorkerBounded ==
    [][AddWorkerCalled =>
        /\ Size(workers) = config.MaxWorkerCount =>
              /\ ret'.err = "max"
              /\ UNCHANGED poolVars
        /\ Size(workers) < config.MaxWorkerCount =>
              /\ ret'.err = "nil"
              /\ workers \subseteq workers'
              /\ Size(workers') = Size(workers) + 1
              /\ \A w \in workers' \ workers : wpc'[w] = "select" /\ ~done'[w]]_vars

\* min=2, max=3, initial=2: after Start, one addWorker succeeded and the next
\* returned the max-reached error, with three workers in the pool.
C2_Witness ==
    /\ config.MinWorkerCount = 2
    /\ config.InitialWorkerCount = 2
    /\ config.MaxWorkerCount = 3
    /\ startPc = "returned"
    /\ nextId = 4
    /\ ret = Returned("addWorker", "max")
    /\ Size(workers) = 3

\* C3: removeWorker called with |workers| = min returns the min-reached error,
\* raises no stop signal and leaves the map as it is; called with
\* |workers| > min it raises the stop signal of exactly one worker of the pool
\* and removes exactly that worker from the map.
C3_RemoveWorkerStopsOne ==
    [][RemoveWorkerCalled =>
        /\ Size(workers) = config.MinWorkerCount =>
              /\ ret'.err = "min"
              /\ done' = done
              /\ workers' = workers
        /\ Size(workers) > config.MinWorkerCount =>
              \E w \in workers :
                  /\ ~done[w]
                  /\ done' = [done EXCEPT ![w] = TRUE]
                  /\ workers' = workers \ {w}]_vars

\* C9: when Consumer.Start returns an error because an addWorker failed, every
\* worker Start had created has its stop signal raised.
C9_FailedStartStopsCreated ==
    startPc = "failed" => \A w \in startCreated : done[w]

(***************************************************************************)
(* Properties of the scaler, checked under SpecScaler.                     *)
(***************************************************************************)
\* C4: a tick calls removeWorker never while now - lastScaleEvent <= cooldown,
\* whatever the readings; a tick whose readings meet the scale-down condition
\* (and not the scale-up one) calls it once the cooldown has elapsed.
C4_ScaleDownWaitsForCooldown ==
    eval.ran =>
        /\ eval.called = "removeWorker" => eval.since > config.CooldownPeriod
        /\ ( /\ eval.queueDepth < ScaleDownThreshold
             /\ eval.workerUtilization < UtilizationDown
             /\ eval.processingTime < TargetProcessingTimeSeconds
             /\ eval.since > config.CooldownPeriod ) => eval.called = "removeWorker"

\* A tick whose readings meet the scale-down condition exactly one cooldown
\* after the last scale event: nothing is called.
C4_Witness ==
    /\ eval.ran
    /\ eval.queueDepth < ScaleDownThreshold
    /\ eval.workerUtilization < UtilizationDown
    /\ eval.processingTime < TargetProcessingTimeSeconds
    /\ eval.since = config.CooldownPeriod
    /\ eval.called = "none"
    /\ Size(workers) > config.MinWorkerCount

\* C5: a tick on which any one arm of the scale-up predicate holds calls
\* addWorker, however little time has passed since lastScaleEvent.
C5_ScaleUpNotGated ==
    ( /\ eval.ran
      /\ \/ eval.queueDepth > ScaleUpThreshold
         \/ eval.workerUtilization > UtilizationUp
         \/ eval.processingTime > TargetProcessingTimeSeconds )
    => eval.called = "addWorker"

\* QueueDepth 0, ProcessingTime average 1 ms, WorkerUtilization average 80, no
\* time elapsed since the last scale event: addWorker was called and succeeded.
C5_Witness ==
    /\ eval = [ran |-> TRUE, queueDepth |-> 0, processingTime |-> 1,
               workerUtilization |-> 80, since |-> 0, called |-> "addWorker"]
    /\ ret = Returned("addWorker", "nil")
    /\ lastScaleEvent > 0

\* C6: lastScaleEvent changes only in a tick whose addWorker or removeWorker
\* returned nil, and then to the time of the tick: a tick whose call returned
\* the max-reached or min-reached error leaves it as it was.
C6_LastScaleEventOnSuccessOnly ==
    [][lastScaleEvent' # lastScaleEvent =>
        /\ ret'.op \in {"addWorker", "removeWorker"}
        /\ ret'.err = "nil"
        /\ lastScaleEvent' = now]_vars

(***************************************************************************)
(* Properties of the workers, checked under SpecWorker.                    *)
(***************************************************************************)
\* the calls a worker has issued for message m that settle its receipt
SettlingCalls(m) == msg[m].deleteMessage + Len(msg[m].changeVisibility)

\* C7: when a worker's run loop has exited, every message that worker received
\* has had a delete call or a change-visibility call issued for it, also when
\* the stop signal was raised while the poll was outstanding or while an
\* earlier message of the batch was with the handler.
C7_ReceivedMessagesSettled ==
    \A w \in WorkerIds :
        wpc[w] = "exited" =>
            \A m \in MsgIds : msg[m].worker = w => SettlingCalls(m) >= 1

\* A worker whose stop signal was raised while its poll was outstanding, the
\* poll then returning a batch of all the messages: the worker went through
\* the whole batch and has exited.
C7_Witness ==
    \E w \in WorkerIds :
        /\ wpc[w] = "exited"
        /\ \A m \in MsgIds :
              /\ msg[m].worker = w
              /\ msg[m].lateStop
              /\ msg[m].finished

\* the Error_processing_error samples recorded so far: in the channel, or
\* received from it
ProcessingErrorSamples ==
    Len(SelectSeq(metrics, LAMBDA s : s.Name = "Error_processing_error"))
        + Len(WindowOf("Error_processing_error"))

\* C8: for a message whose handler returned an error the worker issues no
\* delete call, one change-visibility call with a timeout of 30 seconds and
\* records one Error_processing_error sample; for a message whose handler
\* succeeded it issues one delete call and no change-visibility call.
C8_HandlerOutcomeDecidesCalls ==
    /\ \A m \in MsgIds :
          /\ msg[m].result = "nil" =>
                /\ msg[m].deleteMessage = 1
                /\ msg[m].changeVisibility = <<>>
                /\ msg[m].errorSamples = 0
          /\ msg[m].result = "err" =>
                /\ msg[m].deleteMessage = 0
                /\ msg[m].finished =>
                      /\ msg[m].changeVisibility = <<VisibilityReset>>
                      /\ msg[m].errorSamples = 1
    /\ ProcessingErrorSamples
          = Cardinality({m \in MsgIds : msg[m].result = "err" /\ msg[m].finished})

\* A worker is through with two messages: the handler failed on one and
\* succeeded on the other.
C8_Witness ==
    \E failed, succeeded \in MsgIds :
        /\ msg[failed].finished
        /\ msg[failed].result = "err"
        /\ msg[succeeded].finished
        /\ msg[succeeded].result = "nil"

\* C10: the step in which main's Shutdown call returns leaves every worker of
\* the pool map with its stop signal raised, and moves no worker's run loop:
\* Shutdown returns whether or not the loops have exited.
C10_ShutdownRaisesEveryStop ==
    [][(mainPc = "cancelled" /\ mainPc' = "done") =>
          /\ \A w \in workers : done'[w]
          /\ workers' = workers
          /\ wpc' = wpc]_vars

\* Shutdown has just returned with two workers in the map, both stopped, one
\* of them with a message at the handler and the other in its poll.
C10_Witness ==
    /\ mainPc = "done"
    /\ ret = Returned("Shutdown", "nil")
    /\ Size(workers) = 2
    /\ \A w \in workers : done[w]
    /\ \E w \in workers : wpc[w] = "handler"
    /\ \E w \in workers : wpc[w] = "poll"

(***************************************************************************)
(* Properties of cancellation and of the collector's channel, checked      *)
(* under SpecWorker.                                                       *)
(***************************************************************************)
\* C11: once the context is cancelled, every loop that runs returns at its next
\* suspension point; for the poll loop of a worker, that is the select at the
\* top of the loop: a worker that passes it with the context cancelled returns.
C11_CancelledWorkerReturns ==
    [][\A w \in WorkerIds :
          (ctxDone /\ wpc[w] = "select" /\ wpc'[w] # "select")
              => wpc'[w] = "exited"]_vars

\* C12: every sample RecordMetric returned for is eventually applied by the
\* receiving goroutine, also when the context is cancelled with samples in the
\* buffer: when that goroutine has returned, no sample is left in the channel.
C12_BufferedSamplesApplied == drainPc = "exited" => metrics = <<>>

\* a worker is in a RecordMetric call whose send finds the buffer full
BlockedInRecordMetric(w) ==
    /\ wpc[w] \in {"pollError", "handleError", "recordTime"}
    /\ Len(metrics) = MetricsCapacity

\* C19: a RecordMetric call always returns: a caller that finds the buffer full
\* waits only until the receiving goroutine frees a slot, so no worker is ever
\* blocked in RecordMetric with the receiving goroutine gone, when no slot is
\* ever freed again.
C19_NoProducerBlockedForever ==
    \A w \in WorkerIds : BlockedInRecordMetric(w) => drainPc # "exited"

(***************************************************************************)
(* Properties of the collector's values and windows, checked under         *)
(* SpecCollector.                                                          *)
(***************************************************************************)
\* the names samples are recorded under
MetricNames ==
    {"WorkerCount", "WorkerUtilization", "QueueDepth", "InFlightMessages",
     "ProcessingTime"}
    \cup {ErrorName(errorType) : errorType \in
             {"poll_error", "processing_error", "queue_depth_fetch_error",
              "queue_depth_parse_error", "in_flight_messages_parse_error"}}

\* the receiving goroutine takes the sample at the head of the channel
Drained == metrics # <<>> /\ metrics' = Tail(metrics)

\* C13: GetMetric(name) is 0 while no sample of that name has been drained, and
\* from then on the value of the sample of that name drained last: a drained
\* sample replaces the value of its name, and nothing else changes a value.
C13_GetMetricIsLastDrained ==
    /\ \A name \in MetricNames : GetMetric(name) = 0
    /\ [][\A name \in MetricNames :
             GetMetric(name)' = IF Drained /\ Head(metrics).Name = name
                                THEN Head(metrics).Value
                                ELSE GetMetric(name)]_vars

\* QueueDepth has been drained more than once, and the value is that of the
\* last sample, which is not that of the first.
C13_Witness ==
    /\ Len(WindowOf("QueueDepth")) >= 2
    /\ GetMetric("QueueDepth") # WindowOf("QueueDepth")[1].Value
    /\ GetMetric("QueueDepth") =
           WindowOf("QueueDepth")[Len(WindowOf("QueueDepth"))].Value

\* the durations averages are asked over: the scaler's minute, and two minutes
Durations == {AverageWindow, 2 * AverageWindow}

\* the points of a window that are strictly newer than now - duration
NewerThan(name, duration) ==
    {i \in 1..Len(WindowOf(name)) : WindowOf(name)[i].Timestamp > now - duration}

RECURSIVE SumAt(_, _)
SumAt(dataPoints, indices) ==
    IF indices = {} THEN 0
    ELSE LET i == CHOOSE j \in indices : TRUE
         IN  dataPoints[i].Value + SumAt(dataPoints, indices \ {i})

\* C14: GetMetricAverage(name, d) is the unweighted mean of exactly the points
\* of the window of that name whose timestamp is strictly newer than now - d
\* (the mean times their number is their sum), and 0 when there is none.
C14_AverageIsMeanOfNewerPoints ==
    \A name \in MetricNames, duration \in Durations :
        LET newer == NewerThan(name, duration) IN
        IF newer = {} THEN GetMetricAverage(name, duration) = 0
        ELSE GetMetricAverage(name, duration) * Cardinality(newer) =
                 SumAt(WindowOf(name), newer)

\* QueueDepth 60 recorded at 0 and 120 recorded at 120: at 121 the average
\* over a minute is 120, the point recorded at 0 left out.
C14_Witness ==
    /\ now = 121
    /\ WindowOf("QueueDepth") = <<[Value |-> 60, Timestamp |-> 0],
                                  [Value |-> 120, Timestamp |-> 120]>>
    /\ GetMetricAverage("QueueDepth", AverageWindow) = 120

\* C15 as stated: GetMetricAverage(name, d) is 0 if and only if the window of
\* that name has no point with a timestamp newer than now - d, points of value 0
\* included.
C15_ZeroIffNoNewerPoint ==
    \A name \in MetricNames, duration \in Durations :
        (GetMetricAverage(name, duration) = 0) <=> (NewerThan(name, duration) = {})

\* C15, amended: GetMetricAverage(name, d) is 0 if the window of that name has
\* no point with a timestamp newer than now - d; if it has such points, the
\* result is 0 exactly when their values sum to 0, as they do when every one of
\* them is 0. A result other than 0 tells that there is such a point; a result
\* of 0 does not tell that there is none.
C15_ZeroIfNoNewerPointOrZeroSum ==
    \A name \in MetricNames, duration \in Durations :
        LET newer == NewerThan(name, duration) IN
        /\ newer = {} => GetMetricAverage(name, duration) = 0
        /\ newer # {} => ((GetMetricAverage(name, duration) = 0)
                              <=> (SumAt(WindowOf(name), newer) = 0))

\* The utilization of an idle worker, 0, is in the window and younger than a
\* minute, and the average over the minute is 0; and the window of QueueDepth
\* holds a point, none of them younger than a minute, and its average is 0.
C15_Witness ==
    /\ NewerThan("WorkerUtilization", AverageWindow) # {}
    /\ GetMetricAverage("WorkerUtilization", AverageWindow) = 0
    /\ WindowOf("QueueDepth") # <<>>
    /\ NewerThan("QueueDepth", AverageWindow) = {}
    /\ GetMetricAverage("QueueDepth", AverageWindow) = 0

\* C16: right after the receiving goroutine has applied a sample to the window
\* of its name (the append and the pruning), every point that remains in that
\* window has a timestamp of now - 30 minutes or later.
C16_WindowPrunedToRetention ==
    [][Drained =>
          \A name \in {Head(metrics).Name} :
              \A i \in 1..Len(WindowOf(name)') :
                  WindowOf(name)'[i].Timestamp >= now - Retention]_vars

(***************************************************************************)
(* Properties of the utilization ticker, checked under SpecUtilization.    *)
(***************************************************************************)
\* C17: every WorkerUtilization value a worker's utilization ticker publishes
\* is in [0, 100], whatever the number of messages of the window and its
\* length: the value the ticker is about to send, the samples in the channel
\* and the points in the window.
C17_UtilizationWithinRange ==
    /\ \A w \in WorkerIds :
           upc[w] = "recording" => pendingUtilization[w] \in 0..UtilizationCap
    /\ \A i \in 1..Len(metrics) :
           metrics[i].Name = "WorkerUtilization"
               => metrics[i].Value \in 0..UtilizationCap
    /\ \A i \in 1..Len(WindowOf("WorkerUtilization")) :
           WindowOf("WorkerUtilization")[i].Value \in 0..UtilizationCap

\* The first report of a worker created at 0, made at 10 seconds, is 100, and
\* it has reached the window: over 10 seconds that takes 10 messages or more,
\* 50 of them among the cases.
C17_Witness ==
    /\ recorded = 1
    /\ WindowOf("WorkerUtilization") = <<[Value |-> 100, Timestamp |-> 10]>>

\* a worker's utilization ticker is in RecordWorkerUtilization and its send
\* finds the buffer full
TickerBlockedInRecordMetric(w) ==
    /\ upc[w] = "recording"
    /\ Len(metrics) = MetricsCapacity

\* C20: once a worker's stop signal is raised, its poll loop and its
\* utilization ticker both come to their select and return: neither of them is
\* held for ever before it, in a send that no receiver is left to take.
C20_StoppedWorkerLoopsTerminate ==
    \A w \in WorkerIds :
        (done[w] /\ drainPc = "exited") =>
            /\ ~BlockedInRecordMetric(w)
            /\ ~TickerBlockedInRecordMetric(w)

(***************************************************************************)
(* addWorker and removeWorker as a pair, checked under Spec.               *)
(***************************************************************************)
\* C18: from a pool with min <= |workers| < max, an addWorker that succeeds
\* and a removeWorker that follows it with no pool operation in between (ret
\* still holds the addWorker's result when removeWorker is called) both
\* succeed, |workers| is min..max after each of them, and after the
\* removeWorker it is what it was before the addWorker.
C18_AddThenRemoveRestoresSize ==
    [][(/\ ret = Returned("addWorker", "nil")
        /\ config.MinWorkerCount <= Size(workers) - 1
        /\ RemoveWorkerCalled)
          => /\ Size(workers) <= config.MaxWorkerCount
             /\ ret'.err = "nil"
             /\ Size(workers') = Size(workers) - 1
             /\ config.MinWorkerCount <= Size(workers')
             /\ Size(workers') <= config.MaxWorkerCount]_vars

(***************************************************************************)
(* Properties of the scaler's decision, checked under SpecWorker, where    *)
(* the scaler reads what the workers recorded.                             *)
(***************************************************************************)
\* C21: the processing-time arm compares like units: the average of
\* ProcessingTime, which is recorded in milliseconds, counts for scaling up
\* only when it is more than TargetProcessingTime in milliseconds (average /
\* 1000 > target in seconds). So a tick that calls addWorker has read a queue
\* depth above the threshold, a utilization above 75, or such an average.
C21_ProcessingTimeComparedInSeconds ==
    (eval.ran /\ eval.called = "addWorker") =>
        \/ eval.queueDepth > ScaleUpThreshold
        \/ eval.workerUtilization > UtilizationUp
        \/ eval.processingTime > TargetProcessingTimeSeconds * 1000

(***************************************************************************)
(* The pool operations of one tick, checked under SpecScaler.              *)
(***************************************************************************)
\* a step that is a tick of the scaler, if it is a step at all: not one of
\* Consumer.Start, of main or of the clock, and not the scaler's return
ScalerTicked ==
    /\ UNCHANGED <<startPc, startI, mainPc, scalerPc, now>>
    /\ ~(ret' # ret /\ ret'.op = "Shutdown")
    /\ eval'.ran

\* C22: a tick of the scaler invokes at most one pool operation. When the
\* scale-up predicate holds it is addWorker, and nothing of a scale-down
\* happens in that tick: no worker is stopped or removed. A tick that calls
\* removeWorker creates no worker, and its scale-up predicate did not hold. A
\* tick that calls neither leaves the pool alone. So |workers| changes by at
\* most one in a tick.
C22_OnePoolOperationPerTick ==
    [][ScalerTicked =>
          /\ shouldScaleUp(eval'.queueDepth, eval'.processingTime,
                           eval'.workerUtilization)
                 => eval'.called = "addWorker"
          /\ eval'.called = "addWorker" =>
                 /\ workers \subseteq workers'
                 /\ Size(workers') <= Size(workers) + 1
                 /\ done' = done
          /\ eval'.called = "removeWorker" =>
                 /\ workers' \subseteq workers
                 /\ Size(workers') >= Size(workers) - 1
                 /\ nextId' = nextId
                 /\ ~shouldScaleUp(eval'.queueDepth, eval'.processingTime,
                                   eval'.workerUtilization)
          /\ eval'.called = "none" => UNCHANGED <<workers, done, nextId>>]_vars

\* A tick found the scale-up predicate true with the cooldown over: it has
\* added a worker to the pool, which is above its minimum now, and every
\* worker ever created is still in the pool and running.
C22_Witness ==
    /\ eval.ran
    /\ eval.called = "addWorker"
    /\ eval.since > config.CooldownPeriod
    /\ ret = Returned("addWorker", "nil")
    /\ Size(workers) > config.MinWorkerCount
    /\ \A w \in workers : ~done[w]
    /\ \A w \in 1..(nextId - 1) : w \in workers

(***************************************************************************)
(* The stop signals and the ownership of the workers, checked under Spec.  *)
(***************************************************************************)
\* C23: whatever the interleaving of the scaler's removeWorker calls and
\* Shutdown, no worker's stop channel is closed a second time: no execution
\* panics in Worker.Stop.
C23_StopSignalRaisedOnce == ~panicked

\* the workers created so far
Created == 1..(nextId - 1)

\* C24: in every state, every worker that has been created and is not in the
\* map has had its stop signal raised: the pool leaves no worker running that
\* it no longer holds.
C24_UnownedWorkersAreStopped ==
    \A w \in Created : w \notin workers => done[w]

\* removeWorker has taken a worker out of the map, stopped, while another
\* worker is in the map and running.
C24_Witness ==
    /\ ret = Returned("removeWorker", "nil")
    /\ \E w \in Created : w \notin workers /\ done[w]
    /\ \E w \in workers : ~done[w]

====
